---- MODULE Spec2Model ----
(***************************************************************************)
(* TaskFlow Pro: the TaskManager class of src/script.js (the task          *)
(* collection, the one-level undo slot with its expiry timer, and the      *)
(* localStorage copy), as a state machine.                                 *)
(*                                                                         *)
(* JavaScript values are represented as follows.  A task object is a       *)
(* record with the nine fields addTask writes.  The JS value null is the   *)
(* string Null where the other values of the field are strings (dueDate,   *)
(* completedAt) and the record null where they are objects (deletedTask,   *)
(* return values).  A timer handle is a positive integer and the falsy     *)
(* initial value of undoTimeout is 0.  A parsed import record is a record  *)
(* whose domain holds exactly the properties the JSON object carries, so   *)
(* a property that is missing reads as undefined.                          *)
(***************************************************************************)
EXTENDS Integers, Sequences, FiniteSets, TLC

\* ---------------------------------------------------------------- bounds
MaxTasks == 2        \* tasks held by the collection and the slot together
MaxClock == 1        \* last value the millisecond clock takes
MaxDeletes == 2      \* successful deleteTask calls in one behaviour

\* ------------------------------------------------------------- JS values
Null == "null"
null == [type |-> "null"]
NoTimeout == 0

Has(obj, f) == f \in DOMAIN obj

\* s || dflt for a property that holds a string, null or undefined
StrOr(obj, f, dflt) ==
    IF Has(obj, f) /\ obj[f] # "" /\ obj[f] # Null THEN obj[f] ELSE dflt

\* n || dflt for a property that holds a number or undefined
NumOr(obj, f, dflt) ==
    IF Has(obj, f) /\ obj[f] # 0 THEN obj[f] ELSE dflt

\* Boolean(obj.f) for a property that holds a boolean or undefined
ToBoolean(obj, f) == Has(obj, f) /\ obj[f] = TRUE

\* Date.now().toString(): decimal digits of the clock value
NowId(t) == ToString(t)

\* new Date().toISOString(): the timestamp text of the clock value
toISOString(t) == "T" \o ToString(t)

\* String.prototype.trim
RECURSIVE trimStart(_)
trimStart(s) ==
    IF Len(s) > 0 /\ SubSeq(s, 1, 1) = " " THEN trimStart(SubSeq(s, 2, Len(s))) ELSE s

RECURSIVE trimEnd(_)
trimEnd(s) ==
    IF Len(s) > 0 /\ SubSeq(s, Len(s), Len(s)) = " "
    THEN trimEnd(SubSeq(s, 1, Len(s) - 1)) ELSE s

trim(s) == trimEnd(trimStart(s))

\* ------------------------------------------------------------------ state
VARIABLES
    tasks,        \* this.tasks: sequence of task records, index 1 = JS index 0
    deletedTask,  \* this.deletedTask: a task record or null
    undoTimeout,  \* this.undoTimeout: last handle returned by setTimeout, or 0
    timers,       \* handles of the expiry callbacks the event loop still holds
    nextHandle,   \* the handle the next setTimeout call returns
    stored,       \* localStorage[STORAGE_KEY], parsed: a sequence of task records
    now,          \* the value Date.now() returns
    filter,       \* this.filter: "all", "pending" or "completed"
    sort,         \* this.sort: the sort key of the view
    searchQuery,  \* this.searchQuery
    undoable,     \* history: the task the latest deleteTask removed, until it
                  \* is restored or its timer fires; null otherwise
    forgotten,    \* history: whether the latest deleteTask found another task
                  \* in the slot and displaced it
    last,         \* history: the call made by the last step and what it returned
    toasts        \* the undo toasts on the page: for each the handle of its
                  \* deletion and the task deleteTask returned for it

vars == <<tasks, deletedTask, undoTimeout, timers, nextHandle, stored, now,
          filter, sort, searchQuery, undoable, forgotten, last, toasts>>

findIndexOrLast(ts, id) ==
    IF \E i \in 1..Len(ts) : ts[i].id = id
    THEN CHOOSE i \in 1..Len(ts) :
            ts[i].id = id /\ \A j \in 1..(i - 1) : ts[j].id # id
    ELSE Len(ts)

\* --------------------------------------------------------- array helpers
\* Array.prototype.findIndex(task => task.id === id), 1-based; 0 is JS -1
findIndex(ts, id) ==
    IF \E i \in 1..Len(ts) : ts[i].id = id
    THEN CHOOSE i \in 1..Len(ts) :
            ts[i].id = id /\ \A j \in 1..(i - 1) : ts[j].id # id
    ELSE 0

RemoveLast(ts, i) == SubSeq(ts, 1, Len(ts) - 1)

\* splice(index, 1): the array without the element at 1-based index i
RemoveAt(ts, i) == SubSeq(ts, 1, i - 1) \o SubSeq(ts, i + 1, Len(ts))

InsertAtOverwriting(ts, i, t) == SubSeq(ts, 1, i - 1) \o <<t>> \o SubSeq(ts, i + 1, Len(ts))

\* splice(index, 0, t): t inserted so that it lands at 1-based index i
InsertAt(ts, i, t) == SubSeq(ts, 1, i - 1) \o <<t>> \o SubSeq(ts, i, Len(ts))

unshiftAtEnd(ts, t) == Append(ts, t)

\* this.tasks.unshift(task)
unshift(ts, t) == <<t>> \o ts

\* this.tasks.forEach((task, idx) => { task.order = idx; })
reindex(ts) == [i \in 1..Len(ts) |-> [ts[i] EXCEPT !.order = i - 1]]

saveTasksClears(ts, writeOk) == IF writeOk THEN ts ELSE <<>>

\* saveTasks: JSON.stringify(this.tasks) written under STORAGE_KEY; a write
\* that throws (quota) is caught and leaves the stored text as it was
saveTasks(ts, writeOk) == IF writeOk THEN ts ELSE stored

Ret(op, args, ret) == [op |-> op, args |-> args, ret |-> ret]
TaskRet(t) == [type |-> "task", task |-> t]
BoolRet(b) == [type |-> "boolean", value |-> b]
NumRet(n) == [type |-> "number", value |-> n]

\* tasks the engine holds: the collection and the slot
Held == Len(tasks) + (IF deletedTask = null THEN 0 ELSE 1)

Init ==
    /\ tasks = <<>>
    /\ deletedTask = null
    /\ undoTimeout = NoTimeout
    /\ timers = {}
    /\ nextHandle = 1
    /\ stored = <<>>
    /\ now = 0
    /\ filter = "all"
    /\ sort = "dateAdded"
    /\ searchQuery = ""
    /\ undoable = null
    /\ forgotten = FALSE
    /\ last = Ret("constructor", <<>>, null)
    /\ toasts = {}

\* ------------------------------------------------------------- operations
newTaskOrderZero(taskData, ts, t) ==
    [id |-> NowId(t),
     text |-> trim(taskData.text),
     priority |-> StrOr(taskData, "priority", "medium"),
     category |-> StrOr(taskData, "category", ""),
     dueDate |-> StrOr(taskData, "dueDate", Null),
     completed |-> FALSE,
     completedAt |-> Null,
     createdAt |-> toISOString(t),
     order |-> 0]

\* const task = { id: Date.now().toString(), ..., order: this.tasks.length }
newTask(taskData, ts, t) ==
    [id |-> NowId(t),
     text |-> trim(taskData.text),
     priority |-> StrOr(taskData, "priority", "medium"),
     category |-> StrOr(taskData, "category", ""),
     dueDate |-> StrOr(taskData, "dueDate", Null),
     completed |-> FALSE,
     completedAt |-> Null,
     createdAt |-> toISOString(t),
     order |-> Len(ts)]

addTask(taskData, writeOk) ==
    LET task == newTask(taskData, tasks, now)
    IN  /\ tasks' = unshift(tasks, task)
        /\ stored' = saveTasks(tasks', writeOk)
        /\ last' = Ret("addTask", <<taskData>>, TaskRet(task))
        /\ UNCHANGED <<deletedTask, undoTimeout, timers, nextHandle, now, undoable, forgotten,
                   filter, sort, searchQuery, toasts>>

\* { ...task, ...updates }
merge(task, updates) ==
    [f \in DOMAIN task \cup DOMAIN updates |->
        IF f \in DOMAIN updates THEN updates[f] ELSE task[f]]

updateTask(id, updates, writeOk) ==
    LET index == findIndex(tasks, id)
    IN  /\ IF index = 0
           THEN /\ last' = Ret("updateTask", <<id, updates>>, BoolRet(FALSE))
                /\ UNCHANGED <<tasks, stored>>
           ELSE /\ tasks' = [tasks EXCEPT ![index] = merge(tasks[index], updates)]
                /\ stored' = saveTasks(tasks', writeOk)
                /\ last' = Ret("updateTask", <<id, updates>>, BoolRet(TRUE))
        /\ UNCHANGED <<deletedTask, undoTimeout, timers, nextHandle, now, undoable, forgotten,
                   filter, sort, searchQuery, toasts>>

clearTimeoutForgotten(pending, handle) == pending

\* clearTimeout(handle): the callback of that handle will not run
clearTimeout(pending, handle) == pending \ {handle}

setTimeoutNever(pending, handle) == pending

\* setTimeout(callback, UNDO_DURATION): one more callback the loop will run
setTimeout(pending, handle) == pending \cup {handle}

slotKeepsOccupant(slot, removed) == IF slot = null THEN removed ELSE slot

\* this.deletedTask = this.tasks[index]
slotAfterDelete(slot, removed) == removed

deleteTaskCall(id, writeOk) ==
    LET index == findIndex(tasks, id)
    IN  IF index = 0
        THEN /\ last' = Ret("deleteTask", <<id>>, null)
             /\ UNCHANGED <<tasks, deletedTask, undoTimeout, timers, nextHandle,
                            stored, now, undoable, forgotten,
                   filter, sort, searchQuery>>
        ELSE /\ deletedTask' = slotAfterDelete(deletedTask, tasks[index])
             /\ tasks' = reindex(RemoveAt(tasks, index))
             /\ stored' = saveTasks(tasks', writeOk)
             /\ timers' = setTimeout(IF undoTimeout # NoTimeout
                                     THEN clearTimeout(timers, undoTimeout)
                                     ELSE timers, nextHandle)
             /\ undoTimeout' = nextHandle
             /\ nextHandle' = nextHandle + 1
             /\ undoable' = tasks[index]
             /\ forgotten' = (deletedTask # null /\ deletedTask.id # tasks[index].id)
             /\ last' = Ret("deleteTask", <<id>>, TaskRet(deletedTask'))
             /\ UNCHANGED <<now, filter, sort, searchQuery>>

\* deleteTask called with no toast shown for it
deleteTask(id, writeOk) == deleteTaskCall(id, writeOk) /\ UNCHANGED toasts

undoDeleteCallKeepsSlot(writeOk) ==
    IF deletedTask = null
    THEN /\ last' = Ret("undoDelete", <<>>, BoolRet(FALSE))
         /\ UNCHANGED <<tasks, deletedTask, undoTimeout, timers, nextHandle,
                        stored, now, undoable, forgotten,
                   filter, sort, searchQuery>>
    ELSE /\ tasks' = reindex(unshift(tasks, deletedTask))
         /\ stored' = saveTasks(tasks', writeOk)
         /\ IF undoTimeout # NoTimeout
            THEN /\ timers' = clearTimeout(timers, undoTimeout)
                 /\ undoTimeout' = NoTimeout
            ELSE UNCHANGED <<timers, undoTimeout>>
         /\ undoable' = null
         /\ last' = Ret("undoDelete", <<>>, TaskRet(tasks'[1]))
         /\ UNCHANGED <<deletedTask, nextHandle, now, forgotten,
                   filter, sort, searchQuery>>

undoDeleteCall(writeOk) ==
    IF deletedTask = null
    THEN /\ last' = Ret("undoDelete", <<>>, BoolRet(FALSE))
         /\ UNCHANGED <<tasks, deletedTask, undoTimeout, timers, nextHandle,
                        stored, now, undoable, forgotten,
                   filter, sort, searchQuery>>
    ELSE /\ tasks' = reindex(unshift(tasks, deletedTask))
         /\ stored' = saveTasks(tasks', writeOk)
         /\ deletedTask' = null
         /\ IF undoTimeout # NoTimeout
            THEN /\ timers' = clearTimeout(timers, undoTimeout)
                 /\ undoTimeout' = NoTimeout
            ELSE UNCHANGED <<timers, undoTimeout>>
         /\ undoable' = null
         \* the returned object is the one reindexed in the array
         /\ last' = Ret("undoDelete", <<>>, TaskRet(tasks'[1]))
         /\ UNCHANGED <<nextHandle, now, forgotten,
                   filter, sort, searchQuery>>

\* undoDelete called from no toast
undoDelete(writeOk) == undoDeleteCall(writeOk) /\ UNCHANGED toasts

expireKeepsSlot(slot) == slot

\* the callback deleteTask hands to setTimeout: this.deletedTask = null
expire(slot) == null

timerFires(handle) ==
    /\ handle \in timers
    /\ timers' = timers \ {handle}
    /\ deletedTask' = expire(deletedTask)
    /\ undoable' = null
    /\ last' = Ret("timer", <<handle>>, null)
    /\ UNCHANGED <<tasks, undoTimeout, nextHandle, stored, now, forgotten,
                   filter, sort, searchQuery, toasts>>

toggledKeepsCompletedAt(task, t) ==
    [task EXCEPT !.completed = ~task.completed,
                 !.completedAt = IF ~task.completed THEN toISOString(t) ELSE @]

\* task.completed = !task.completed;
\* task.completedAt = task.completed ? new Date().toISOString() : null;
toggled(task, t) ==
    [task EXCEPT !.completed = ~task.completed,
                 !.completedAt = IF ~task.completed THEN toISOString(t) ELSE Null]

toggleTaskCompletion(id, writeOk) ==
    LET index == findIndex(tasks, id)
        flipped == toggled(tasks[index], now)
    IN  /\ IF index = 0
           THEN /\ last' = Ret("toggleTaskCompletion", <<id>>, null)
                /\ UNCHANGED <<tasks, stored>>
           ELSE /\ tasks' = [tasks EXCEPT ![index] = flipped]
                /\ stored' = saveTasks(tasks', writeOk)
                /\ last' = Ret("toggleTaskCompletion", <<id>>, TaskRet(flipped))
        /\ UNCHANGED <<deletedTask, undoTimeout, timers, nextHandle, now, undoable, forgotten,
                   filter, sort, searchQuery, toasts>>

moveTaskBeforeTarget(ts, draggedIndex, targetIndex) ==
    InsertAt(RemoveAt(ts, draggedIndex),
             IF draggedIndex < targetIndex THEN targetIndex - 1 ELSE targetIndex,
             ts[draggedIndex])

\* the two splices of reorderTasks: remove at draggedIndex, then insert at
\* targetIndex, the index the target had before the removal
moveTask(ts, draggedIndex, targetIndex) ==
    InsertAt(RemoveAt(ts, draggedIndex), targetIndex, ts[draggedIndex])

reorderRejectedAbsentOnly(draggedIndex, targetIndex) ==
    draggedIndex = 0 \/ targetIndex = 0

\* draggedIndex === -1 || targetIndex === -1 || draggedIndex === targetIndex
reorderRejected(draggedIndex, targetIndex) ==
    draggedIndex = 0 \/ targetIndex = 0 \/ draggedIndex = targetIndex

reorderTasks(draggedId, targetId, writeOk) ==
    LET draggedIndex == findIndex(tasks, draggedId)
        targetIndex == findIndex(tasks, targetId)
    IN  /\ IF reorderRejected(draggedIndex, targetIndex)
           THEN /\ last' = Ret("reorderTasks", <<draggedId, targetId>>, BoolRet(FALSE))
                /\ UNCHANGED <<tasks, stored>>
           ELSE /\ tasks' = reindex(moveTask(tasks, draggedIndex, targetIndex))
                /\ stored' = saveTasks(tasks', writeOk)
                /\ last' = Ret("reorderTasks", <<draggedId, targetId>>, BoolRet(TRUE))
        /\ UNCHANGED <<deletedTask, undoTimeout, timers, nextHandle, now, undoable, forgotten,
                   filter, sort, searchQuery, toasts>>

withoutCompletedReversed(ts) ==
    LET notCompleted(t) == ~t.completed
        kept == SelectSeq(ts, notCompleted)
    IN  [i \in 1..Len(kept) |-> kept[Len(kept) + 1 - i]]

\* this.tasks.filter(task => !task.completed)
withoutCompleted(ts) ==
    LET notCompleted(t) == ~t.completed
    IN  SelectSeq(ts, notCompleted)

clearCompleted(writeOk) ==
    LET isCompleted(t) == t.completed
        completedCount == Len(SelectSeq(tasks, isCompleted))
    IN  /\ tasks' = reindex(withoutCompleted(tasks))
        /\ stored' = saveTasks(tasks', writeOk)
        /\ last' = Ret("clearCompleted", <<>>, NumRet(completedCount))
        /\ UNCHANGED <<deletedTask, undoTimeout, timers, nextHandle, now, undoable, forgotten,
                   filter, sort, searchQuery, toasts>>

clearAllEmptiesSlot(writeOk) ==
    /\ tasks' = <<>>
    /\ stored' = saveTasks(tasks', writeOk)
    /\ deletedTask' = null
    /\ undoable' = null
    /\ timers' = {}
    /\ undoTimeout' = NoTimeout
    /\ last' = Ret("clearAll", <<>>, NumRet(Len(tasks)))
    /\ UNCHANGED <<nextHandle, now, forgotten, filter, sort, searchQuery, toasts>>

clearAll(writeOk) ==
    /\ tasks' = <<>>
    /\ stored' = saveTasks(tasks', writeOk)
    /\ last' = Ret("clearAll", <<>>, NumRet(Len(tasks)))
    /\ UNCHANGED <<deletedTask, undoTimeout, timers, nextHandle, now, undoable, forgotten,
                   filter, sort, searchQuery, toasts>>

\* the object importTasks pushes for one parsed record
importedTask(task, ts) ==
    [id |-> StrOr(task, "id", NowId(now)),
     text |-> StrOr(task, "text", ""),
     priority |-> StrOr(task, "priority", "medium"),
     category |-> StrOr(task, "category", ""),
     dueDate |-> StrOr(task, "dueDate", Null),
     completed |-> ToBoolean(task, "completed"),
     completedAt |-> StrOr(task, "completedAt", Null),
     createdAt |-> StrOr(task, "createdAt", toISOString(now)),
     order |-> NumOr(task, "order", Len(ts))]

alreadyPresentNever(ts, task) == FALSE

\* this.tasks.some(t => t.id === task.id); no task has the id undefined
alreadyPresent(ts, task) ==
    Has(task, "id") /\ \E i \in 1..Len(ts) : ts[i].id = task.id

\* tasks.forEach(task => { if (!this.tasks.some(...)) this.tasks.push(...) }):
\* the array the loop leaves and whether it threw (an element that is null
\* throws a TypeError when its id is read)
RECURSIVE importLoop(_, _)
importLoop(ts, elems) ==
    IF elems = <<>> THEN [tasks |-> ts, threw |-> FALSE]
    ELSE LET task == Head(elems)
         IN  IF task = null THEN [tasks |-> ts, threw |-> TRUE]
             ELSE IF alreadyPresent(ts, task)
                  THEN importLoop(ts, Tail(elems))
                  ELSE importLoop(Append(ts, importedTask(task, ts)), Tail(elems))

ImportOk(n) == [type |-> "result", success |-> TRUE, count |-> n]
ImportFailed(msg) == [type |-> "result", success |-> FALSE, error |-> msg]

\* data is the parsed form of the text: json is "invalid" (JSON.parse throws),
\* "null", "object" (no tasks property), "array" or "envelope" (tasks property)
importTasks(data, writeOk) ==
    /\ IF data.json = "invalid"
       THEN /\ last' = Ret("importTasks", <<data>>, ImportFailed("SyntaxError"))
            /\ UNCHANGED <<tasks, stored>>
       ELSE IF data.json = "null"
       THEN /\ last' = Ret("importTasks", <<data>>, ImportFailed("TypeError"))
            /\ UNCHANGED <<tasks, stored>>
       ELSE IF data.json = "object"
       THEN /\ last' = Ret("importTasks", <<data>>, ImportFailed("Invalid data format"))
            /\ UNCHANGED <<tasks, stored>>
       ELSE LET loop == importLoop(tasks, data.value)
            IN  /\ IF loop.threw
                   THEN /\ tasks' = loop.tasks
                        /\ UNCHANGED stored
                        /\ last' = Ret("importTasks", <<data>>, ImportFailed("TypeError"))
                   ELSE /\ tasks' = reindex(loop.tasks)
                        /\ stored' = saveTasks(tasks', writeOk)
                        /\ last' = Ret("importTasks", <<data>>, ImportOk(Len(data.value)))
    /\ UNCHANGED <<deletedTask, undoTimeout, timers, nextHandle, now, undoable, forgotten,
                   filter, sort, searchQuery, toasts>>

\* the parsed form of the text exportTasks returns for the collection ts at
\* the instant t; JSON.stringify and JSON.parse give back the strings,
\* booleans, numbers and nulls of a task as they are
exportTasks(ts, t) ==
    [json |-> "envelope", version |-> "1.4.0", exportedAt |-> toISOString(t), value |-> ts]

\* the collection of a TaskManager constructed on an empty store after its
\* importTasks(data), data an array or an envelope
importIntoFresh(data) ==
    LET loop == importLoop(<<>>, data.value)
    IN  IF loop.threw THEN loop.tasks ELSE reindex(loop.tasks)

CollectionRet(ts) == [type |-> "collection", tasks |-> ts]

\* importTasks(exportTasks()) with the import done by a fresh TaskManager
exportImportFresh ==
    /\ last' = Ret("exportImportFresh", <<exportTasks(tasks, now)>>,
                   CollectionRet(importIntoFresh(exportTasks(tasks, now))))
    /\ UNCHANGED <<tasks, deletedTask, undoTimeout, timers, nextHandle, stored, now,
                   undoable, forgotten, filter, sort, searchQuery, toasts>>

\* loadTasks: the stored array, a task without order given its index
loadTasks(st) ==
    [i \in 1..Len(st) |->
        IF Has(st[i], "order") THEN st[i] ELSE merge(st[i], [order |-> i - 1])]

\* the page is loaded again: a new TaskManager is constructed on the stored
\* data and the pending timer of the old page is gone
restart ==
    /\ tasks' = loadTasks(stored)
    /\ filter' = "all"
    /\ sort' = "dateAdded"
    /\ searchQuery' = ""
    /\ deletedTask' = null
    /\ undoTimeout' = NoTimeout
    /\ timers' = {}
    /\ undoable' = null
    /\ forgotten' = FALSE
    /\ last' = Ret("constructor", <<>>, null)
    /\ toasts' = {}
    /\ UNCHANGED <<nextHandle, stored, now>>

\* ------------------------------------------------------ the undo toasts
Toast(handle, task) == [handle |-> handle, task |-> task]

\* handleDeleteTask with the confirmation accepted: deleteTask(id) and, when
\* it returned a task, showUndoToast appends a toast whose Undo button calls
\* undoDelete()
handleDeleteTask(id) ==
    /\ deleteTaskCall(id, TRUE)
    /\ toasts' = IF findIndex(tasks, id) = 0
                 THEN toasts
                 ELSE toasts \cup { Toast(nextHandle, tasks[findIndex(tasks, id)]) }

\* the click handler of a toast's Undo button: undoCallback(), toast.remove()
clickUndo(toast) ==
    /\ toast \in toasts
    /\ undoDeleteCall(TRUE)
    /\ toasts' = toasts \ {toast}

\* the timeout showUndoToast sets for its toast: toast.remove()
toastExpires(toast) ==
    /\ toast \in toasts
    /\ toasts' = toasts \ {toast}
    /\ last' = Ret("toastTimer", <<toast.handle>>, null)
    /\ UNCHANGED <<tasks, deletedTask, undoTimeout, timers, nextHandle, stored, now,
                   undoable, forgotten, filter, sort, searchQuery>>

\* the millisecond clock advances between two calls
tick ==
    /\ now' = now + 1
    /\ last' = Ret("tick", <<>>, null)
    /\ UNCHANGED <<tasks, deletedTask, undoTimeout, timers, nextHandle, stored,
                   undoable, forgotten,
                   filter, sort, searchQuery, toasts>>

\* ---------------------------------------------------------------- the view
Upper == "ABCDEFGHIJKLMNOPQRSTUVWXYZ"
Lower == "abcdefghijklmnopqrstuvwxyz"
Digits == "0123456789"

\* 1-based position of the one-character string c in s, 0 when it is absent
indexOf(s, c) ==
    IF \E i \in 1..Len(s) : SubSeq(s, i, i) = c
    THEN CHOOSE i \in 1..Len(s) :
            SubSeq(s, i, i) = c /\ \A j \in 1..(i - 1) : SubSeq(s, j, j) # c
    ELSE 0

\* String.prototype.toLowerCase on the letters A-Z
RECURSIVE toLowerCase(_)
toLowerCase(s) ==
    IF s = "" THEN ""
    ELSE LET c == SubSeq(s, 1, 1)
             i == indexOf(Upper, c)
         IN  (IF i = 0 THEN c ELSE SubSeq(Lower, i, i))
                \o toLowerCase(SubSeq(s, 2, Len(s)))

\* String.prototype.includes
includes(s, q) ==
    \E i \in 1..(Len(s) - Len(q) + 1) : SubSeq(s, i, i + Len(q) - 1) = q

RECURSIVE parseDigits(_, _)
parseDigits(s, acc) ==
    IF s = "" THEN acc
    ELSE parseDigits(SubSeq(s, 2, Len(s)),
                     10 * acc + indexOf(Digits, SubSeq(s, 1, 1)) - 1)

\* new Date(s) as a number; the model writes a date as a letter and its
\* number: "T<n>" the instant n of toISOString, "D<n>" the day n of a due date
DateValue(s) == parseDigits(SubSeq(s, 2, Len(s)), 0)

\* String.prototype.localeCompare on letters and spaces: alphabetical without
\* regard to case, then lower case before upper case at the first difference
Alphabet == " abcdefghijklmnopqrstuvwxyz"

RECURSIVE alphabetical(_, _)
alphabetical(a, b) ==
    IF a = "" /\ b = "" THEN 0
    ELSE IF a = "" THEN -1
    ELSE IF b = "" THEN 1
    ELSE LET x == indexOf(Alphabet, SubSeq(a, 1, 1))
             y == indexOf(Alphabet, SubSeq(b, 1, 1))
         IN  IF x < y THEN -1
             ELSE IF x > y THEN 1
             ELSE alphabetical(SubSeq(a, 2, Len(a)), SubSeq(b, 2, Len(b)))

RECURSIVE lowerFirst(_, _)
lowerFirst(a, b) ==
    IF a = "" \/ b = "" THEN 0
    ELSE IF SubSeq(a, 1, 1) = SubSeq(b, 1, 1)
    THEN lowerFirst(SubSeq(a, 2, Len(a)), SubSeq(b, 2, Len(b)))
    ELSE IF indexOf(Lower, SubSeq(a, 1, 1)) > 0 THEN -1 ELSE 1

localeCompare(a, b) ==
    LET p == alphabetical(toLowerCase(a), toLowerCase(b))
    IN  IF p # 0 THEN p ELSE lowerFirst(a, b)

\* const priorityOrder = { high: 0, medium: 1, low: 2 }
priorityOrder == [high |-> 0, medium |-> 1, low |-> 2]

compareDueDateMissingFirst(a, b) ==
    IF a.dueDate \in {Null, ""} /\ b.dueDate \in {Null, ""} THEN 0
    ELSE IF a.dueDate \in {Null, ""} THEN -1
    ELSE IF b.dueDate \in {Null, ""} THEN 1
    ELSE DateValue(a.dueDate) - DateValue(b.dueDate)

\* case 'dueDate': both missing 0, a missing 1, b missing -1, else the
\* difference of the two dates
compareDueDate(a, b) ==
    IF a.dueDate \in {Null, ""} /\ b.dueDate \in {Null, ""} THEN 0
    ELSE IF a.dueDate \in {Null, ""} THEN 1
    ELSE IF b.dueDate \in {Null, ""} THEN -1
    ELSE DateValue(a.dueDate) - DateValue(b.dueDate)

compareCreatedAtAscending(a, b) == DateValue(a.createdAt) - DateValue(b.createdAt)

\* default: new Date(b.createdAt) - new Date(a.createdAt)
compareCreatedAt(a, b) == DateValue(b.createdAt) - DateValue(a.createdAt)

\* the comparator getSortFunction returns for this.sort = key, applied to
\* (a, b); a comparison that gives NaN counts as 0 in Array.prototype.sort
getSortFunction(key, a, b) ==
    CASE key = "dueDate" -> compareDueDate(a, b)
      [] key = "priority" ->
            IF a.priority \in DOMAIN priorityOrder /\ b.priority \in DOMAIN priorityOrder
            THEN priorityOrder[a.priority] - priorityOrder[b.priority]
            ELSE 0
      [] key = "name" -> localeCompare(a.text, b.text)
      [] key = "manual" -> a.order - b.order
      [] OTHER -> compareCreatedAt(a, b)

\* Array.prototype.sort with the comparator of key: a stable sort, each
\* element put before the first one that compares greater than it
RECURSIVE sorted(_, _)
sorted(ts, key) ==
    IF ts = <<>> THEN <<>>
    ELSE LET init == sorted(SubSeq(ts, 1, Len(ts) - 1), key)
             x == ts[Len(ts)]
             greater == { i \in 1..Len(init) : getSortFunction(key, init[i], x) > 0 }
             p == IF greater = {} THEN Len(init) + 1
                  ELSE CHOOSE i \in greater : \A j \in greater : i <= j
         IN  InsertAt(init, p, x)

\* switch (this.filter): 'pending', 'completed', anything else keeps all
passesFilter(task, f) ==
    CASE f = "pending" -> ~task.completed
      [] f = "completed" -> task.completed
      [] OTHER -> TRUE

matchesSearchTextOnly(task, q) ==
    includes(toLowerCase(task.text), toLowerCase(q))

\* task.text.toLowerCase().includes(query) ||
\*     (task.category && task.category.toLowerCase().includes(query))
matchesSearch(task, q) ==
    LET query == toLowerCase(q)
    IN  \/ includes(toLowerCase(task.text), query)
        \/ /\ task.category \notin {Null, ""}
           /\ includes(toLowerCase(task.category), query)

\* the array getFilteredTasks returns
getFilteredTasks(ts, f, q, key) ==
    LET keptByFilter(t) == passesFilter(t, f)
        keptBySearch(t) == matchesSearch(t, q)
        byFilter == SelectSeq(ts, keptByFilter)
        bySearch == IF q # "" THEN SelectSeq(byFilter, keptBySearch) ELSE byFilter
    IN  sorted(bySearch, key)

tasksSortedInPlace(ts, view) == IF Len(view) = Len(ts) THEN view ELSE ts

\* let filtered = [...this.tasks]: filter and sort work on a copy, so
\* this.tasks is the array it was
tasksAfterView(ts, view) == ts

ViewRet(view) == [type |-> "view", tasks |-> view]

\* renderFullTaskList: the view of the current state is computed and drawn
renderFullTaskList ==
    LET view == getFilteredTasks(tasks, filter, searchQuery, sort)
    IN  /\ tasks' = tasksAfterView(tasks, view)
        /\ last' = Ret("getFilteredTasks", <<>>, ViewRet(view))
        /\ UNCHANGED <<deletedTask, undoTimeout, timers, nextHandle, stored, now,
                       undoable, forgotten, filter, sort, searchQuery, toasts>>

\* a filter button: this.taskManager.filter = btn.dataset.filter, then render
setFilter(f) ==
    LET view == getFilteredTasks(tasks, f, searchQuery, sort)
    IN  /\ filter' = f
        /\ tasks' = tasksAfterView(tasks, view)
        /\ last' = Ret("setFilter", <<f>>, ViewRet(view))
        /\ UNCHANGED <<deletedTask, undoTimeout, timers, nextHandle, stored, now,
                       undoable, forgotten, sort, searchQuery, toasts>>

\* the sort select: this.taskManager.sort = this.sortSelect.value, then render
setSort(key) ==
    LET view == getFilteredTasks(tasks, filter, searchQuery, key)
    IN  /\ sort' = key
        /\ tasks' = tasksAfterView(tasks, view)
        /\ last' = Ret("setSort", <<key>>, ViewRet(view))
        /\ UNCHANGED <<deletedTask, undoTimeout, timers, nextHandle, stored, now,
                       undoable, forgotten, filter, searchQuery, toasts>>

\* the search box: this.taskManager.searchQuery = value.trim(), then render
setSearchQuery(value) ==
    LET view == getFilteredTasks(tasks, filter, trim(value), sort)
    IN  /\ searchQuery' = trim(value)
        /\ tasks' = tasksAfterView(tasks, view)
        /\ last' = Ret("setSearchQuery", <<value>>, ViewRet(view))
        /\ UNCHANGED <<deletedTask, undoTimeout, timers, nextHandle, stored, now,
                       undoable, forgotten, filter, sort, toasts>>

\* -------------------------------------------------- numbers (IEEE doubles)
\* A natural number too wide for one machine word is a sequence of limbs,
\* least significant first; a positive double is [m, e], the number
\* m * 2^(-e) with m of MantissaBits bits.
Limb == 32768
LimbBits == 15
MantissaBits == 53

RECURSIVE bigMulAdd(_, _, _)
\* a * m + carry, for m and carry below Limb
bigMulAdd(a, m, carry) ==
    IF a = <<>>
    THEN IF carry = 0 THEN <<>> ELSE <<carry % Limb>> \o bigMulAdd(<<>>, m, carry \div Limb)
    ELSE LET v == Head(a) * m + carry
         IN  <<v % Limb>> \o bigMulAdd(Tail(a), m, v \div Limb)

RECURSIVE bigNorm(_)
bigNorm(a) ==
    IF a # <<>> /\ a[Len(a)] = 0 THEN bigNorm(SubSeq(a, 1, Len(a) - 1)) ELSE a

RECURSIVE bigDivRem(_, _)
\* quotient and remainder of a by d, for d up to Limb
bigDivRem(a, d) ==
    IF a = <<>> THEN [q |-> <<>>, r |-> 0]
    ELSE LET hi == bigDivRem(Tail(a), d)
             cur == hi.r * Limb + Head(a)
         IN  [q |-> <<cur \div d>> \o hi.q, r |-> cur % d]

bigBits(a) ==
    IF a = <<>> THEN 0
    ELSE LimbBits * (Len(a) - 1)
           + (CHOOSE k \in 1..LimbBits : 2^(k - 1) <= a[Len(a)] /\ a[Len(a)] < 2^k)

RECURSIVE bigShiftLeft(_, _)
bigShiftLeft(a, n) ==
    IF n = 0 THEN a
    ELSE IF n >= LimbBits THEN bigShiftLeft(<<0>> \o a, n - LimbBits)
    ELSE bigMulAdd(a, 2^n, 0)

RECURSIVE bigShiftRight(_, _)
bigShiftRight(a, n) ==
    IF n = 0 \/ a = <<>> THEN bigNorm(a)
    ELSE IF n >= LimbBits THEN bigShiftRight(Tail(a), n - LimbBits)
    ELSE bigNorm(bigDivRem(a, 2^n).q)

bigToNumber(a) == IF a = <<>> THEN 0 ELSE IF Len(a) = 1 THEN a[1] ELSE a[1] + Limb * a[2]

\* round to nearest, ties to even, of (q + r/d)
roundToEven(q, r, d) ==
    IF 2 * r > d \/ (2 * r = d /\ q # <<>> /\ q[1] % 2 = 1)
    THEN bigMulAdd(bigNorm(q), 1, 1)
    ELSE bigNorm(q)

\* the double nearest to m * 2^(-e), for m of at least MantissaBits bits
roundToDouble(m, e) ==
    LET s == bigBits(m) - MantissaBits
        d == bigDivRem(m, 2^s)
    IN  IF s = 0 THEN [m |-> m, e |-> e]
        ELSE [m |-> roundToEven(d.q, d.r, 2^s), e |-> e - s]

\* the double c / t for integers 0 < c <= t
divide(c, t) ==
    LET k == CHOOSE k \in 0..30 : c * 2^k >= t /\ (k = 0 \/ c * 2^(k - 1) < t)
        e == k + MantissaBits - 1
        d == bigDivRem(bigShiftLeft(<<c>>, e), t)
    IN  [m |-> roundToEven(d.q, d.r, t), e |-> e]

\* the double x * n for a double x and an integer 0 < n < Limb
times(x, n) == roundToDouble(bigMulAdd(x.m, n, 0), x.e)

\* Math.round(x) = floor(x + 1/2), for a double 0 < x < Limb
MathRound(x) == (bigToNumber(bigShiftRight(x.m, x.e - 1)) + 1) \div 2

\* ------------------------------------------------------------------ stats
StatsRet(total, completed, pending, productivity) ==
    [type |-> "stats", total |-> total, completed |-> completed,
     pending |-> pending, productivity |-> productivity]

\* total > 0 ? Math.round((completed / total) * 100) : 0
productivity(completed, total) ==
    IF total > 0
    THEN IF completed = 0 THEN 0 ELSE MathRound(times(divide(completed, total), 100))
    ELSE 0

getStats ==
    LET total == Len(tasks)
        isCompleted(t) == t.completed
        completed == Len(SelectSeq(tasks, isCompleted))
        pending == total - completed
    IN  /\ last' = Ret("getStats", <<>>,
                       StatsRet(total, completed, pending, productivity(completed, total)))
        /\ UNCHANGED <<tasks, deletedTask, undoTimeout, timers, nextHandle, stored, now,
                       undoable, forgotten, filter, sort, searchQuery, toasts>>

\* ----------------------------------------------------------------- streak
\* the milliseconds of a day
DayMs == 86400000

\* Date.UTC(date.getUTCFullYear(), date.getUTCMonth(), date.getUTCDate()):
\* the instant at which the UTC day of ms begins
dayKey(ms) == (ms \div DayMs) * DayMs

\* the Set of the day keys of the tasks with completed and completedAt
uniqueDays(ts) ==
    { dayKey(DateValue(ts[i].completedAt)) :
         i \in { j \in 1..Len(ts) : ts[j].completed /\ ts[j].completedAt \notin {Null, ""} } }

\* Array.from(uniqueDays).sort((a, b) => b - a)
RECURSIVE sortDescending(_)
sortDescending(S) ==
    IF S = {} THEN <<>>
    ELSE LET m == CHOOSE x \in S : \A y \in S : y <= x
         IN  <<m>> \o sortDescending(S \ {m})

\* for (let i = 1; i < sortedDays.length; i++) { ... }
RECURSIVE streakLoop(_, _, _, _)
streakLoop(sortedDays, i, streak, expectedDate) ==
    IF i > Len(sortedDays) THEN streak
    ELSE IF sortedDays[i] = expectedDate
    THEN streakLoop(sortedDays, i + 1, streak + 1, expectedDate - DayMs)
    ELSE IF sortedDays[i] < expectedDate THEN streak
    ELSE streakLoop(sortedDays, i + 1, streak, expectedDate)

calculateStreakFromTodayOnly(ts, t) ==
    LET sortedDays == sortDescending(uniqueDays(ts))
        today == dayKey(t)
        yesterday == today - DayMs
    IN  IF Len(ts) = 0 THEN 0
        ELSE IF uniqueDays(ts) = {} THEN 0
        ELSE IF sortedDays[1] = today THEN streakLoop(sortedDays, 2, 1, yesterday)
        ELSE 0

\* the number calculateStreak returns for the collection ts at the instant t
calculateStreak(ts, t) ==
    LET sortedDays == sortDescending(uniqueDays(ts))
        today == dayKey(t)
        yesterday == today - DayMs
    IN  IF Len(ts) = 0 THEN 0
        ELSE IF uniqueDays(ts) = {} THEN 0
        ELSE IF sortedDays[1] = today THEN streakLoop(sortedDays, 2, 1, yesterday)
        ELSE IF sortedDays[1] = yesterday THEN streakLoop(sortedDays, 2, 1, yesterday - DayMs)
        ELSE 0

\* updateStats reads the streak of the current collection
readStreak ==
    /\ last' = Ret("calculateStreak", <<>>, NumRet(calculateStreak(tasks, now)))
    /\ UNCHANGED <<tasks, deletedTask, undoTimeout, timers, nextHandle, stored, now,
                   undoable, forgotten, filter, sort, searchQuery, toasts>>

\* a day goes by between two calls
dayPasses ==
    /\ now' = now + DayMs
    /\ last' = Ret("tick", <<>>, null)
    /\ UNCHANGED <<tasks, deletedTask, undoTimeout, timers, nextHandle, stored,
                   undoable, forgotten, filter, sort, searchQuery, toasts>>

\* --------------------------------------------------------------- insights
\* new Date(s) in milliseconds: a due date "D<n>" (a date-only text) is the
\* instant at which the UTC day n begins, a timestamp "T<n>" the instant n
DateMs(s) == IF SubSeq(s, 1, 1) = "D" THEN DateValue(s) * DayMs ELSE DateValue(s)

\* Date.prototype.toDateString of the instant ms, in a local zone that is
\* UTC: the calendar day, written as the instant at which it begins
toDateString(ms) == dayKey(ms)

\* if (!task.dueDate || task.completed) return false;
\* return new Date(task.dueDate) < new Date();
isOverdue(task, t) ==
    /\ task.dueDate \notin {Null, ""}
    /\ ~task.completed
    /\ DateMs(task.dueDate) < t

\* return date.toDateString() === today.toDateString();
isDueToday(task, t) ==
    /\ task.dueDate \notin {Null, ""}
    /\ ~task.completed
    /\ toDateString(DateMs(task.dueDate)) = toDateString(t)

InsightsRet(productivityShown, streak, overdue, dueToday) ==
    [type |-> "insights", productivity |-> productivityShown, streak |-> streak,
     overdue |-> overdue, dueToday |-> dueToday]

\* renderInsights: the numbers its lines show; with no task it shows the
\* invitation to add one and none of them
renderInsights ==
    LET total == Len(tasks)
        isCompleted(t) == t.completed
        completed == Len(SelectSeq(tasks, isCompleted))
        overdueNow(t) == isOverdue(t, now)
        dueTodayNow(t) == isDueToday(t, now)
    IN  /\ last' = Ret("renderInsights", <<>>,
                       IF total = 0
                       THEN InsightsRet(0, 0, 0, 0)
                       ELSE InsightsRet(productivity(completed, total),
                                        calculateStreak(tasks, now),
                                        Len(SelectSeq(tasks, overdueNow)),
                                        Len(SelectSeq(tasks, dueTodayNow))))
        /\ UNCHANGED <<tasks, deletedTask, undoTimeout, timers, nextHandle, stored, now,
                       undoable, forgotten, filter, sort, searchQuery, toasts>>

\* ------------------------------------------------------------ the callers
\* what handleAddTask passes: trimmed non-empty text, the select values
Drafts == { [text |-> " a ", priority |-> "", category |-> "", dueDate |-> Null] }

\* partial objects passed to updateTask; handleEditTask passes { text }
Updates == { [text |-> "c"] }

\* parsed import files: two that do not yield an array, a bare array of two
\* records without id, an export envelope of an earlier revision (its tasks
\* carry no completedAt), an array whose second element is null, and an
\* array of one record that has no text
ImportData ==
    { [json |-> "invalid"],
      [json |-> "object"],
      [json |-> "array", value |-> << [text |-> "a"], [text |-> "a"] >>],
      [json |-> "envelope", value |->
          << [id |-> "7", text |-> "a", completed |-> TRUE],
             [id |-> "0", text |-> "a", completed |-> FALSE, order |-> 5] >>],
      [json |-> "array", value |-> << [id |-> "7", text |-> "a", order |-> 5], null >>],
      [json |-> "array", value |-> << [id |-> "7"] >>] }

\* ids a caller can pass: those of the collection and one that is not there
IdArgs == { tasks[i].id : i \in 1..Len(tasks) } \cup { "absent" }

\* ------------------------- the engine, every call that can change it
AddTask == Held < MaxTasks /\ \E d \in Drafts : addTask(d, TRUE)
UpdateTask == \E id \in IdArgs, u \in Updates : updateTask(id, u, TRUE)
DeleteTask == nextHandle <= MaxDeletes /\ \E id \in IdArgs : deleteTask(id, TRUE)
UndoDelete == undoDelete(TRUE)
TimerFires == \E h \in timers : timerFires(h)
ToggleTaskCompletion == \E id \in IdArgs : toggleTaskCompletion(id, TRUE)
ReorderTasks == \E d \in IdArgs, t \in IdArgs : reorderTasks(d, t, TRUE)
ClearCompleted == clearCompleted(TRUE)
ClearAll == clearAll(TRUE)
ImportTasks ==
    \E data \in ImportData :
        /\ Has(data, "value") =>
              Held + Len(importLoop(tasks, data.value).tasks) - Len(tasks) <= MaxTasks
        /\ importTasks(data, TRUE)
Tick == now < MaxClock /\ tick

Next ==
    \/ AddTask
    \/ UpdateTask
    \/ DeleteTask
    \/ UndoDelete
    \/ TimerFires
    \/ ToggleTaskCompletion
    \/ ReorderTasks
    \/ ClearCompleted
    \/ ClearAll
    \/ ImportTasks
    \/ Tick

Spec == Init /\ [][Next]_vars

\* ------------------------------- delete, undo and drag-and-drop on their own
MaxUndoTasks == 3
MaxUndoClock == 2
MaxUndoDeletes == 2

UAddTask == Held < MaxUndoTasks /\ \E d \in Drafts : addTask(d, TRUE)
UDeleteTask == nextHandle <= MaxUndoDeletes /\ \E id \in IdArgs : deleteTask(id, TRUE)
UUndoDelete == undoDelete(TRUE)
UTimerFires == \E h \in timers : timerFires(h)
UReorderTasks == \E d \in IdArgs, t \in IdArgs : reorderTasks(d, t, TRUE)
UTick == now < MaxUndoClock /\ tick

UndoNext ==
    \/ UAddTask
    \/ UDeleteTask
    \/ UUndoDelete
    \/ UTimerFires
    \/ UReorderTasks
    \/ UTick

UndoSpec == Init /\ [][UndoNext]_vars

\* ------------------------------------------- the expiry of the undo slot
MaxLiveTasks == 2
MaxLiveClock == 1
MaxLiveDeletes == 2

LAddTask == Held < MaxLiveTasks /\ \E d \in Drafts : addTask(d, TRUE)
LDeleteTask == nextHandle <= MaxLiveDeletes /\ \E id \in IdArgs : deleteTask(id, TRUE)
LUndoDelete == undoDelete(TRUE)
LTimerFires == \E h \in timers : timerFires(h)
LTick == now < MaxLiveClock /\ tick

LiveNext ==
    \/ LAddTask
    \/ LDeleteTask
    \/ LUndoDelete
    \/ LTimerFires
    \/ LTick

\* the timer callback runs once its delay has passed, unless it was cleared
UndoLiveSpec == Init /\ [][LiveNext]_vars /\ WF_vars(LTimerFires)

\* ------------------------- editing, completion and clearing on their own
MaxEditTasks == 2
MaxEditClock == 1
MaxEditDeletes == 1

EAddTask == Held < MaxEditTasks /\ \E d \in Drafts : addTask(d, TRUE)
EUpdateTask == \E id \in IdArgs, u \in Updates : updateTask(id, u, TRUE)
EDeleteTask ==
    \E id \in IdArgs :
        /\ id = "absent" \/ nextHandle <= MaxEditDeletes
        /\ deleteTask(id, TRUE)
EUndoDelete == undoDelete(TRUE)
ETimerFires == \E h \in timers : timerFires(h)
EToggleTaskCompletion == \E id \in IdArgs : toggleTaskCompletion(id, TRUE)
EClearCompleted == clearCompleted(TRUE)
EClearAll == clearAll(TRUE)
ETick == now < MaxEditClock /\ tick

EditNext ==
    \/ EAddTask
    \/ EUpdateTask
    \/ EDeleteTask
    \/ EUndoDelete
    \/ ETimerFires
    \/ EToggleTaskCompletion
    \/ EClearCompleted
    \/ EClearAll
    \/ ETick

EditSpec == Init /\ [][EditNext]_vars

\* ------------------------------------------- filter, search and sort
\* the calls follow one another within one millisecond: the clock stays at 0
MaxViewTasks == 2

\* what handleAddTask passes for two filled forms
ViewDrafts ==
    { [text |-> "Ab", priority |-> "high", category |-> "", dueDate |-> Null],
      [text |-> "b", priority |-> "low", category |-> "Work", dueDate |-> "D1"] }

Filters == {"all", "pending", "completed"}
SortKeys == {"dateAdded", "dueDate", "priority", "name", "manual"}
SearchInputs == {"", "aB ", "wo"}

VAddTask == Held < MaxViewTasks /\ \E d \in ViewDrafts : addTask(d, TRUE)
VToggleTaskCompletion == \E id \in IdArgs : toggleTaskCompletion(id, TRUE)
VSetFilter == \E f \in Filters : setFilter(f)
VSetSort == \E key \in SortKeys : setSort(key)
VSetSearchQuery == \E value \in SearchInputs : setSearchQuery(value)
VRenderFullTaskList == renderFullTaskList

ViewNext ==
    \/ VAddTask
    \/ VToggleTaskCompletion
    \/ VSetFilter
    \/ VSetSort
    \/ VSetSearchQuery
    \/ VRenderFullTaskList

ViewSpec == Init /\ [][ViewNext]_vars

\* ------------------------------------------------ the sort by due date
\* the calls follow one another within one millisecond: the clock stays at 0
MaxDueTasks == 3

\* the user names the n-th task "T<n>" and picks no due date or one of two
DueDrafts(n) ==
    { [text |-> "T" \o ToString(n), priority |-> "", category |-> "", dueDate |-> d] :
         d \in {Null, "D1", "D2"} }

DAddTask ==
    /\ Len(tasks) < MaxDueTasks
    /\ \E d \in DueDrafts(Len(tasks) + 1) : addTask(d, TRUE)
DSetSort == \E key \in {"dateAdded", "dueDate"} : setSort(key)
DRenderFullTaskList == renderFullTaskList

DueNext ==
    \/ DAddTask
    \/ DSetSort
    \/ DRenderFullTaskList

DueSpec == Init /\ [][DueNext]_vars

\* ------------------------------------------- the default sort by creation
MaxSortTasks == 3
MaxSortClock == 1

\* the user names the n-th task "T<n>"
SortDrafts(n) ==
    { [text |-> "T" \o ToString(n), priority |-> "", category |-> "", dueDate |-> Null] }

SAddTask ==
    /\ Len(tasks) < MaxSortTasks
    /\ \E d \in SortDrafts(Len(tasks) + 1) : addTask(d, TRUE)
SReorderTasks == \E d \in IdArgs, t \in IdArgs : reorderTasks(d, t, TRUE)
SSetSort == \E key \in {"dateAdded", "manual"} : setSort(key)
SRenderFullTaskList == renderFullTaskList
STick == now < MaxSortClock /\ tick

SortNext ==
    \/ SAddTask
    \/ SReorderTasks
    \/ SSetSort
    \/ SRenderFullTaskList
    \/ STick

SortSpec == Init /\ [][SortNext]_vars

\* ------------------------------------------------ the statistics of a list
MaxStatsTasks == 40

\* the collection after n tasks were added at the clock values 0 .. n-1 and
\* the done oldest of them were completed at clock n
StatsTasks(n, done) ==
    [k \in 1..n |->
        [id |-> NowId(n - k),
         text |-> "a",
         priority |-> "medium",
         category |-> "",
         dueDate |-> Null,
         completed |-> (n - k < done),
         completedAt |-> IF n - k < done THEN toISOString(n) ELSE Null,
         createdAt |-> toISOString(n - k),
         order |-> n - k]]

StatsInit ==
    \E n \in 0..MaxStatsTasks : \E done \in 0..n :
        /\ tasks = StatsTasks(n, done)
        /\ stored = tasks
        /\ now = n
        /\ deletedTask = null
        /\ undoTimeout = NoTimeout
        /\ timers = {}
        /\ nextHandle = 1
        /\ filter = "all"
        /\ sort = "dateAdded"
        /\ searchQuery = ""
        /\ undoable = null
        /\ forgotten = FALSE
        /\ last = Ret("constructor", <<>>, null)
        /\ toasts = {}

SGetStats == getStats

StatsNext == SGetStats

StatsSpec == StatsInit /\ [][StatsNext]_vars

\* ------------------------------------------------- completions over days
MaxStreakTasks == 2
MaxStreakDays == 3
MaxStreakClock == 1

KAddTask == Len(tasks) < MaxStreakTasks /\ \E d \in Drafts : addTask(d, TRUE)
KToggleTaskCompletion == \E id \in IdArgs : toggleTaskCompletion(id, TRUE)
KReadStreak == readStreak
KTick == now % DayMs < MaxStreakClock /\ tick
KDayPasses == now \div DayMs < MaxStreakDays /\ dayPasses

StreakNext ==
    \/ KAddTask
    \/ KToggleTaskCompletion
    \/ KReadStreak
    \/ KTick
    \/ KDayPasses

StreakSpec == Init /\ [][StreakNext]_vars

\* ----------------------------------------------------- import on its own
MaxImportTasks == 4
MaxImportClock == 1

MAddTask == Held < MaxImportTasks /\ \E d \in Drafts : addTask(d, TRUE)
MImportTasks ==
    \E data \in ImportData :
        /\ Has(data, "value") =>
              Held + Len(importLoop(tasks, data.value).tasks) - Len(tasks) <= MaxImportTasks
        /\ importTasks(data, TRUE)
MExportImportFresh == exportImportFresh
MRestart == restart
MTick == now < MaxImportClock /\ tick

ImportNext ==
    \/ MAddTask
    \/ MImportTasks
    \/ MExportImportFresh
    \/ MRestart
    \/ MTick

ImportSpec == Init /\ [][ImportNext]_vars

\* ------------------------------------------ a store whose writes can fail
MaxStoreTasks == 2
MaxStoreClock == 1
MaxStoreDeletes == 1

WAddTask ==
    /\ Held < MaxStoreTasks
    /\ \E d \in Drafts, writeOk \in BOOLEAN : addTask(d, writeOk)
WDeleteTask ==
    \E id \in IdArgs, writeOk \in BOOLEAN :
        /\ id = "absent" \/ nextHandle <= MaxStoreDeletes
        /\ deleteTask(id, writeOk)
WUndoDelete == \E writeOk \in BOOLEAN : undoDelete(writeOk)
WClearAll == \E writeOk \in BOOLEAN : clearAll(writeOk)
WTick == now < MaxStoreClock /\ tick

StoreNext ==
    \/ WAddTask
    \/ WDeleteTask
    \/ WUndoDelete
    \/ WClearAll
    \/ WTick

StoreSpec == Init /\ [][StoreNext]_vars

\* ------------------------------------- updateTask called with any fields
MaxPatchTasks == 2
MaxPatchClock == 1

\* partial objects a caller of updateTask(id, updates) can pass: updateTask
\* spreads whatever fields it is given over the task
Patches == { [text |-> "c"], [id |-> "9"], [createdAt |-> "T9"] }

PAddTask == Held < MaxPatchTasks /\ \E d \in Drafts : addTask(d, TRUE)
PUpdateTask == \E id \in IdArgs, u \in Patches : updateTask(id, u, TRUE)
PTick == now < MaxPatchClock /\ tick

PatchNext ==
    \/ PAddTask
    \/ PUpdateTask
    \/ PTick

PatchSpec == Init /\ [][PatchNext]_vars

\* ------------------------------------------------ insights on their own
MaxInsightTasks == 2
MaxInsightDays == 2
MaxInsightClock == 1

InsightDrafts ==
    { [text |-> "a", priority |-> "", category |-> "", dueDate |-> d] :
         d \in {Null, "D0", "D1"} }

IAddTask == Held < MaxInsightTasks /\ \E d \in InsightDrafts : addTask(d, TRUE)
IToggleTaskCompletion == \E id \in IdArgs : toggleTaskCompletion(id, TRUE)
IRenderInsights == renderInsights
ITick == now % DayMs < MaxInsightClock /\ tick
IDayPasses == now \div DayMs < MaxInsightDays /\ dayPasses

InsightNext ==
    \/ IAddTask
    \/ IToggleTaskCompletion
    \/ IRenderInsights
    \/ ITick
    \/ IDayPasses

InsightSpec == Init /\ [][InsightNext]_vars

\* ------------------------------------- the streak with imported tasks
MaxDatedTasks == 2
MaxDatedClock == 1

\* parsed import files whose record is completed: on the day the clock
\* starts in, and two days after it
DatedData ==
    { [json |-> "array", value |->
          << [id |-> "7", text |-> "a", completed |-> TRUE, completedAt |-> at] >>] :
         at \in { toISOString(0), toISOString(2 * DayMs) } }

TAddTask == Held < MaxDatedTasks /\ \E d \in Drafts : addTask(d, TRUE)
TImportTasks ==
    \E data \in DatedData :
        /\ Held + Len(importLoop(tasks, data.value).tasks) - Len(tasks) <= MaxDatedTasks
        /\ importTasks(data, TRUE)
TToggleTaskCompletion == \E id \in IdArgs : toggleTaskCompletion(id, TRUE)
TReadStreak == readStreak
TTick == now < MaxDatedClock /\ tick

DatedNext ==
    \/ TAddTask
    \/ TImportTasks
    \/ TToggleTaskCompletion
    \/ TReadStreak
    \/ TTick

DatedSpec == Init /\ [][DatedNext]_vars

\* ------------------------------------------ deletions and their toasts
MaxToastTasks == 2
MaxToastClock == 1
MaxToastDeletes == 2

BAddTask == Held < MaxToastTasks /\ \E d \in Drafts : addTask(d, TRUE)
BHandleDeleteTask ==
    \E id \in IdArgs \ {"absent"} :
        /\ nextHandle <= MaxToastDeletes
        /\ handleDeleteTask(id)
BClickUndo == \E toast \in toasts : clickUndo(toast)
BToastExpires == \E toast \in toasts : toastExpires(toast)
BTimerFires == \E h \in timers : timerFires(h)
BTick == now < MaxToastClock /\ tick

ToastNext ==
    \/ BAddTask
    \/ BHandleDeleteTask
    \/ BClickUndo
    \/ BToastExpires
    \/ BTimerFires
    \/ BTick

ToastSpec == Init /\ [][ToastNext]_vars

\* ------------------------------------------------------------ properties
StripOrder(t) == [f \in DOMAIN t \ {"order"} |-> t[f]]
Unordered(ts) == [i \in 1..Len(ts) |-> StripOrder(ts[i])]
Without(ts, i) == [k \in 1..(Len(ts) - 1) |-> IF k < i THEN ts[k] ELSE ts[k + 1]]
Ids(ts) == [i \in 1..Len(ts) |-> ts[i].id]
FirstIndex(ts, id) ==
    LET at == { i \in 1..Len(ts) : ts[i].id = id }
    IN  IF at = {} THEN 0 ELSE CHOOSE i \in at : \A j \in at : i <= j

\* C1: the order values of the collection are exactly 0 .. n-1, n the number
\* of tasks.  Violated: an import that throws on a null element after pushing
\* a record leaves the pushed record with the order its file gave it.
C1_OrderIsPermutation ==
    { tasks[i].order : i \in 1..Len(tasks) } = 0..(Len(tasks) - 1)

\* C2: every task of the collection is completed iff its completedAt is not
\* null.  Violated: import copies completed and completedAt independently.
C2_CompletedIffCompletedAt ==
    \A i \in 1..Len(tasks) : tasks[i].completed <=> (tasks[i].completedAt # Null)

\* C3: no two tasks of the collection have the same id.  Violated: two adds
\* that read the same clock value.
C3_UniqueIds ==
    \A i, j \in 1..Len(tasks) : tasks[i].id = tasks[j].id => i = j

\* C4: deleteTask(id) with id present removes exactly the (first) task with
\* that id, keeps the others in their relative order, puts the removed task
\* in the slot and returns it.
C4_DeleteRemovesThatTask ==
    [][ (last'.op = "deleteTask" /\ FirstIndex(tasks, last'.args[1]) # 0) =>
          LET i == FirstIndex(tasks, last'.args[1])
          IN  /\ Unordered(tasks') = Unordered(Without(tasks, i))
              /\ deletedTask' = tasks[i]
              /\ last'.ret = TaskRet(tasks[i]) ]_vars

C4_Witness ==
    /\ last.op = "deleteTask"
    /\ last.ret.type = "task"
    /\ Len(tasks) = 2
    /\ last.ret.task.id \notin { tasks[i].id : i \in 1..Len(tasks) }
    /\ deletedTask = last.ret.task

\* C5: an undoDelete restores the task removed by the latest deleteTask, and
\* only while that deletion has been neither undone nor expired; a task that
\* a later delete displaced from the slot is never restored.
C5_OnlyLatestDeletionUndoable ==
    [][ last'.op = "undoDelete" =>
          IF undoable # null
          THEN /\ last'.ret.type = "task"
               /\ StripOrder(last'.ret.task) = StripOrder(undoable)
               /\ Unordered(tasks') = <<StripOrder(undoable)>> \o Unordered(tasks)
          ELSE /\ last'.ret = BoolRet(FALSE)
               /\ tasks' = tasks ]_vars

C5_Witness ==
    /\ last.op = "undoDelete"
    /\ last.ret.type = "task"
    /\ forgotten

\* C6: undoDelete with the slot occupied puts the slot's task at index 0,
\* keeps the other tasks in their order, empties the slot, cancels the
\* expiry timer and returns the restored task.
C6_UndoRestoresAtFront ==
    [][ (last'.op = "undoDelete" /\ deletedTask # null) =>
          /\ Unordered(tasks') = <<StripOrder(deletedTask)>> \o Unordered(tasks)
          /\ deletedTask' = null
          /\ timers' = {}
          /\ undoTimeout' = NoTimeout
          /\ last'.ret.type = "task"
          /\ StripOrder(last'.ret.task) = StripOrder(deletedTask) ]_vars

\* deleting T2 from [T3,T2,T1] and undoing gives [T2,T3,T1]
C6_Witness ==
    /\ last.op = "undoDelete"
    /\ last.ret.type = "task"
    /\ Ids(tasks) = <<"1", "2", "0">>

\* C7: once the slot is occupied it eventually becomes empty: if no undo
\* empties it, the expiry timer of the latest delete fires.
C7_SlotEventuallyEmpty == (deletedTask # null) ~> (deletedTask = null)

C7_Witness ==
    /\ last.op = "timer"
    /\ deletedTask = null
    /\ Len(tasks) = 1

\* C8: undoDelete with the slot empty (nothing deleted, deletion undone or
\* expired) returns false and changes neither the collection, the slot, the
\* timer nor the stored data.
C8_UndoOnEmptySlotIsNoOp ==
    [][ (last'.op = "undoDelete" /\ (deletedTask = null \/ undoable = null)) =>
          /\ last'.ret = BoolRet(FALSE)
          /\ UNCHANGED <<tasks, deletedTask, stored, timers, undoTimeout>> ]_vars

\* an undo after the timer of the latest delete has fired
C8_Witness ==
    /\ last.op = "undoDelete"
    /\ last.ret = BoolRet(FALSE)
    /\ undoTimeout # NoTimeout
    /\ timers = {}

\* C9: at most one expiry timer is pending, and a pending timer is the one
\* the latest deleteTask started, whose task is still in the slot.
C9_AtMostOneTimer ==
    /\ Cardinality(timers) <= 1
    /\ \A h \in timers :
          /\ h = undoTimeout
          /\ deletedTask # null
          /\ deletedTask = undoable

\* a second delete has displaced the first and cancelled its timer
C9_Witness ==
    /\ forgotten
    /\ timers = {2}

\* C10 as stated: after a successful reorder the dragged task is immediately
\* before the target task.
C10_DraggedBeforeTarget ==
    [][ (last'.op = "reorderTasks" /\ last'.ret = BoolRet(TRUE)) =>
          LET i == FirstIndex(tasks, last'.args[1])
              j == FirstIndex(tasks, last'.args[2])
          IN  \E k \in 1..(Len(tasks') - 1) :
                 /\ StripOrder(tasks'[k]) = StripOrder(tasks[i])
                 /\ StripOrder(tasks'[k + 1]) = StripOrder(tasks[j]) ]_vars

\* C10 amended: after a successful reorder the dragged task is at the index
\* the target had before the call and the other tasks keep their order, so
\* the dragged task is immediately before the target when it lay after it
\* and immediately after the target when it lay before it.
C10_DraggedTakesTargetIndex ==
    [][ (last'.op = "reorderTasks" /\ last'.ret = BoolRet(TRUE)) =>
          LET i == FirstIndex(tasks, last'.args[1])
              j == FirstIndex(tasks, last'.args[2])
          IN  /\ StripOrder(tasks'[j]) = StripOrder(tasks[i])
              /\ Unordered(Without(tasks', j)) = Unordered(Without(tasks, i))
              /\ IF i > j
                 THEN StripOrder(tasks'[j + 1]) = StripOrder(tasks[j])
                 ELSE StripOrder(tasks'[j - 1]) = StripOrder(tasks[j]) ]_vars

\* a dragged task that lay before its target, in a list of three distinct ids
C10_Witness ==
    /\ last.op = "reorderTasks"
    /\ last.ret = BoolRet(TRUE)
    /\ Len(tasks) = 3
    /\ C3_UniqueIds
    /\ FirstIndex(tasks, last.args[1]) = FirstIndex(tasks, last.args[2]) + 1

\* C11: reorderTasks with an absent dragged id, an absent target id or the
\* same id twice returns false and changes neither the collection (so no
\* order value) nor the stored data.
C11_ReorderRejectedIsNoOp ==
    [][ (/\ last'.op = "reorderTasks"
         /\ \/ FirstIndex(tasks, last'.args[1]) = 0
            \/ FirstIndex(tasks, last'.args[2]) = 0
            \/ last'.args[1] = last'.args[2]) =>
          /\ last'.ret = BoolRet(FALSE)
          /\ UNCHANGED <<tasks, stored>> ]_vars

\* a present task dropped on itself, in a list whose order values differ
\* from the indices
C11_Witness ==
    /\ last.op = "reorderTasks"
    /\ last.ret = BoolRet(FALSE)
    /\ last.args[1] = last.args[2]
    /\ FirstIndex(tasks, last.args[1]) > 0
    /\ Len(tasks) = 2
    /\ tasks[1].order = 1

\* C12: updateTask, toggleTaskCompletion and deleteTask with an id that no
\* task of the collection has report not-found (false, null, null) and change
\* neither the collection, the undo slot, the expiry timer nor the stored
\* data; in particular such a deleteTask keeps the slot's occupant and its
\* pending timer.
C12_UnknownIdIsNoOp ==
    [][ (/\ last'.op \in {"updateTask", "toggleTaskCompletion", "deleteTask"}
         /\ FirstIndex(tasks, last'.args[1]) = 0) =>
          /\ last'.ret = IF last'.op = "updateTask" THEN BoolRet(FALSE) ELSE null
          /\ UNCHANGED <<tasks, deletedTask, undoTimeout, timers, stored>> ]_vars

\* a deleteTask with an unknown id while a deleted task waits in the slot
\* with its timer pending and tasks remain in the collection
C12_Witness ==
    /\ last.op = "deleteTask"
    /\ last.ret = null
    /\ deletedTask # null
    /\ timers # {}
    /\ tasks # <<>>

\* C13: toggleTaskCompletion on a present task flips its completed flag,
\* sets completedAt to the current time exactly when the flag goes from false
\* to true and to null when it goes from true to false, and changes no other
\* field and no other task; a second toggle of the same task right after one
\* that completed it leaves it with completed = false and completedAt = null.
C13_ToggleFlips ==
    [][ (last'.op = "toggleTaskCompletion" /\ FirstIndex(tasks, last'.args[1]) > 0) =>
          LET i == FirstIndex(tasks, last'.args[1])
          IN  /\ Len(tasks') = Len(tasks)
              /\ \A k \in 1..Len(tasks) : k # i => tasks'[k] = tasks[k]
              /\ tasks'[i].completed = ~tasks[i].completed
              /\ tasks'[i].completedAt =
                    IF tasks[i].completed THEN Null ELSE "T" \o ToString(now)
              /\ [tasks'[i] EXCEPT !.completed = FALSE, !.completedAt = Null]
                    = [tasks[i] EXCEPT !.completed = FALSE, !.completedAt = Null]
              /\ last'.ret = TaskRet(tasks'[i])
              /\ (/\ last.op = "toggleTaskCompletion"
                  /\ last.args = last'.args
                  /\ last.ret.type = "task"
                  /\ last.ret.task.completed) =>
                    (~tasks'[i].completed /\ tasks'[i].completedAt = Null) ]_vars

\* the second of two toggles of a task, next to a task that stays completed
C13_Witness ==
    /\ last.op = "toggleTaskCompletion"
    /\ last.ret.type = "task"
    /\ ~last.ret.task.completed
    /\ last.ret.task.completedAt = Null
    /\ Len(tasks) = 2
    /\ \E k \in 1..2 : tasks[k].completed /\ tasks[k].completedAt # Null

\* C14: addTask with a text that is not blank puts the new task at index 0
\* with the trimmed text, completed = false, completedAt = null and order
\* equal to the number of tasks before the call, leaves the existing tasks
\* unchanged and in their order behind it, and returns the created task.
C14_AddPutsNewTaskFirst ==
    [][ (last'.op = "addTask" /\ trim(last'.args[1].text) # "") =>
          /\ Len(tasks') = Len(tasks) + 1
          /\ SubSeq(tasks', 2, Len(tasks')) = tasks
          /\ tasks'[1].text = trim(last'.args[1].text)
          /\ tasks'[1].completed = FALSE
          /\ tasks'[1].completedAt = Null
          /\ tasks'[1].order = Len(tasks)
          /\ last'.ret = TaskRet(tasks'[1]) ]_vars

\* a third task added in front of two
C14_Witness ==
    /\ last.op = "addTask"
    /\ Len(tasks) = 3
    /\ tasks[1].order = 2
    /\ tasks[1].text = "a"
    /\ last.ret = TaskRet(tasks[1])

\* C15: the engine never holds or persists a task whose text is blank: an
\* addTask whose text is empty after trimming is rejected and changes
\* nothing.  Violated: addTask does not look at the text, and importTasks
\* gives a record without text the text ''.
C15_NoBlankText ==
    /\ \A i \in 1..Len(tasks) : trim(tasks[i].text) # ""
    /\ \A i \in 1..Len(stored) : trim(stored[i].text) # ""

\* C16: each task's order equals its index in the collection: the task at
\* position i (from 0) has order i.  Violated: addTask gives the new task
\* the order n and puts it at index 0 without renumbering the others.
C16_OrderIsIndex ==
    \A i \in 1..Len(tasks) : tasks[i].order = i - 1

\* C17: clearCompleted removes exactly the tasks with completed = true: the
\* k-th task it leaves is the k-th incomplete task of the collection before
\* the call, unchanged apart from its order, and it returns the number of
\* tasks it removed.
C17_ClearCompletedRemovesCompleted ==
    [][ last'.op = "clearCompleted" =>
          LET pending == { i \in 1..Len(tasks) : ~tasks[i].completed }
              kth(k) == CHOOSE i \in pending :
                           Cardinality({ j \in pending : j < i }) = k - 1
          IN  /\ Len(tasks') = Cardinality(pending)
              /\ \A k \in 1..Len(tasks') :
                    StripOrder(tasks'[k]) = StripOrder(tasks[kth(k)])
              /\ last'.ret = NumRet(Len(tasks) - Cardinality(pending)) ]_vars

\* one completed task removed from in front of an incomplete one
C17_Witness ==
    /\ last.op = "clearCompleted"
    /\ last.ret = NumRet(1)
    /\ Len(tasks) = 1
    /\ ~tasks[1].completed
    /\ tasks[1].id = "0"
    /\ tasks[1].text = "c"

\* C18: clearAll empties the collection and returns the number of tasks it
\* held, and leaves the undo slot and its expiry timer as they were: none of
\* the cleared tasks goes to the slot.
C18_ClearAllKeepsSlot ==
    [][ last'.op = "clearAll" =>
          /\ tasks' = <<>>
          /\ last'.ret = NumRet(Len(tasks))
          /\ UNCHANGED <<deletedTask, undoTimeout, timers>> ]_vars

\* a clearAll of one task while a deleted task waits in the slot
C18_Witness ==
    /\ last.op = "clearAll"
    /\ last.ret = NumRet(1)
    /\ tasks = <<>>
    /\ deletedTask # null
    /\ timers = {undoTimeout}

\* C19: a call of getFilteredTasks changes nothing of the engine: not the
\* collection or any field of a task, the filter, the sort key, the search
\* query, the undo slot, its timer or the stored data; and a second call
\* right after it, on the state the first one left, returns the same
\* sequence.
C19_ViewLeavesStateUnchanged ==
    [][ last'.op = "getFilteredTasks" =>
          /\ UNCHANGED <<tasks, filter, sort, searchQuery, deletedTask,
                         undoTimeout, timers, stored>>
          /\ last'.ret = ViewRet(getFilteredTasks(tasks', filter', searchQuery', sort')) ]_vars

\* a view sorted by name whose order differs from that of the collection
C19_Witness ==
    /\ last.op = "getFilteredTasks"
    /\ sort = "name"
    /\ Len(tasks) = 2
    /\ Len(last.ret.tasks) = 2
    /\ last.ret.tasks[1] = tasks[2]
    /\ last.ret.tasks[2] = tasks[1]

SameLetter(c, d) ==
    \/ c = d
    \/ \E i \in 1..Len(Upper) :
          {c, d} = {SubSeq(Upper, i, i), SubSeq(Lower, i, i)}

\* q occurs in s when upper and lower case of a letter count as the same
OccursIgnoringCase(s, q) ==
    \E i \in 1..(Len(s) - Len(q) + 1) :
        \A j \in 1..Len(q) : SameLetter(SubSeq(s, i + j - 1, i + j - 1), SubSeq(q, j, j))

InView(task, f, q) ==
    /\ f = "pending" => ~task.completed
    /\ f = "completed" => task.completed
    /\ q # "" => \/ OccursIgnoringCase(task.text, q)
                 \/ task.category # Null /\ OccursIgnoringCase(task.category, q)

\* C20: the view a call returns holds each task of the collection once if
\* the task passes the filter (pending: not completed, completed: completed,
\* all: every task) and, when the search query is not empty, the query
\* occurs in its text or its category without regard to case; it holds no
\* other task.
C20_ViewHoldsMatchingTasks ==
    [][ last'.ret.type = "view" =>
          LET view == last'.ret.tasks
              passing == { i \in 1..Len(tasks') : InView(tasks'[i], filter', searchQuery') }
          IN  /\ Len(view) = Cardinality(passing)
              /\ \A i \in passing :
                    Cardinality({ k \in 1..Len(view) : view[k] = tasks'[i] })
                       = Cardinality({ j \in passing : tasks'[j] = tasks'[i] }) ]_vars

\* a search that only the category of one of two pending tasks matches,
\* in another case than the query
C20_Witness ==
    /\ last.ret.type = "view"
    /\ searchQuery = "wo"
    /\ filter = "pending"
    /\ Len(tasks) = 2
    /\ Len(last.ret.tasks) = 1
    /\ last.ret.tasks[1].category = "Work"
    /\ \A i \in 1..2 : ~tasks[i].completed

PositionIn(ts, t) == CHOOSE i \in 1..Len(ts) : ts[i] = t
DueDay(s) == CHOOSE n \in 0..9 : s = "D" \o ToString(n)
Texts(ts) == [i \in 1..Len(ts) |-> ts[i].text]

\* C21: with the sort key dueDate the view lists the tasks in ascending due
\* date, every task without a due date after every task with one, and tasks
\* with the same due date, or both without one, in the order they have in
\* the collection.
C21_DueDateAscendingMissingLast ==
    [][ (last'.ret.type = "view" /\ sort' = "dueDate") =>
          LET view == last'.ret.tasks
          IN  /\ Len(view) = Len(tasks')
              /\ \A k \in 1..Len(view) : \A l \in (k + 1)..Len(view) :
                    /\ view[k].dueDate = Null => view[l].dueDate = Null
                    /\ (view[k].dueDate # Null /\ view[l].dueDate # Null) =>
                          DueDay(view[k].dueDate) <= DueDay(view[l].dueDate)
                    /\ view[k].dueDate = view[l].dueDate =>
                          PositionIn(tasks', view[k]) < PositionIn(tasks', view[l]) ]_vars

\* T3 and T1 are due the same day and T2 has no due date
C21_Witness ==
    /\ last.ret.type = "view"
    /\ sort = "dueDate"
    /\ Texts(tasks) = <<"T3", "T2", "T1">>
    /\ Texts(last.ret.tasks) = <<"T3", "T1", "T2">>
    /\ tasks[1].dueDate = "D1"
    /\ tasks[3].dueDate = "D1"

TaskNumber(t) == CHOOSE n \in 1..9 : t.text = "T" \o ToString(n)
CreatedAtNumber(t) == CHOOSE n \in 0..9 : t.createdAt = "T" \o ToString(n)

\* C22 as stated: the default view (sort key dateAdded, filter all, no
\* search) lists the tasks most recently created first, also when several
\* were created at the same clock value: T<m> comes before T<n> when m > n.
C22_MostRecentlyCreatedFirst ==
    [][ (last'.ret.type = "view" /\ sort' = "dateAdded") =>
          LET view == last'.ret.tasks
          IN  \A k \in 1..Len(view) : \A l \in (k + 1)..Len(view) :
                 TaskNumber(view[k]) > TaskNumber(view[l]) ]_vars

\* C22 amended: the default view lists the tasks in descending createdAt and
\* tasks with the same createdAt in the order they have in the collection;
\* so when the collection is in the order addTask left it, newest first, the
\* view is the collection: [T3,T2,T1] after adding T1, T2, T3.
C22_DescendingCreatedAtTiesInCollectionOrder ==
    [][ (last'.ret.type = "view" /\ sort' = "dateAdded") =>
          LET view == last'.ret.tasks
          IN  /\ Len(view) = Len(tasks')
              /\ \A k \in 1..Len(view) : \A l \in (k + 1)..Len(view) :
                    /\ CreatedAtNumber(view[k]) >= CreatedAtNumber(view[l])
                    /\ view[k].createdAt = view[l].createdAt =>
                          PositionIn(tasks', view[k]) < PositionIn(tasks', view[l])
              /\ (\A i \in 1..Len(tasks') : TaskNumber(tasks'[i]) = Len(tasks') + 1 - i) =>
                    view = tasks' ]_vars

\* T1 added at clock 0, T2 and T3 both at clock 1, nothing moved since
C22_Witness ==
    /\ last.ret.type = "view"
    /\ sort = "dateAdded"
    /\ Texts(last.ret.tasks) = <<"T3", "T2", "T1">>
    /\ Texts(tasks) = <<"T3", "T2", "T1">>
    /\ tasks[1].createdAt = tasks[2].createdAt
    /\ tasks[2].createdAt # tasks[3].createdAt

\* C23: getStats returns total = the number of tasks, completed = the number
\* of completed tasks, pending = total - completed and productivity =
\* round(100 * completed / total) when total > 0 and 0 otherwise, a number in
\* 0..100.  Violated: the code rounds the double (completed / total) * 100,
\* which for 23 of 40 is 57.49999999999999 and gives 57 where
\* round(100 * 23 / 40) = round(57.5) = 58.
C23_StatsAreExact ==
    last.op = "getStats" =>
        LET total == Len(tasks)
            completed == Cardinality({ i \in 1..Len(tasks) : tasks[i].completed })
        IN  /\ last.ret.total = total
            /\ last.ret.completed = completed
            /\ last.ret.pending = total - completed
            /\ last.ret.productivity =
                  IF total > 0 THEN (200 * completed + total) \div (2 * total) ELSE 0
            /\ last.ret.productivity \in 0..100

\* the UTC days, counted from day 0, on which a completed task was completed
CompletionDays ==
    { DateValue(tasks[i].completedAt) \div DayMs :
         i \in { j \in 1..Len(tasks) : tasks[j].completed /\ tasks[j].completedAt # Null } }

\* C24: calculateStreak returns the length of the longest run of consecutive
\* days that ends at the most recent completion day when that day is today
\* or yesterday, and 0 when no task is completed or the most recent
\* completion day is neither.
C24_StreakIsRunEndingTodayOrYesterday ==
    (last.op = "calculateStreak") =>
        LET today == now \div DayMs
            latest == CHOOSE d \in CompletionDays : \A e \in CompletionDays : e <= d
            runs == { r \in 1..(latest + 1) : \A j \in 0..(r - 1) : (latest - j) \in CompletionDays }
        IN  last.ret = NumRet(IF CompletionDays = {} \/ latest \notin {today, today - 1}
                              THEN 0
                              ELSE CHOOSE r \in runs : \A q \in runs : q <= r)

\* completions yesterday and the day before, none today
C24_Witness ==
    /\ last.op = "calculateStreak"
    /\ last.ret = NumRet(2)
    /\ now \div DayMs = 3
    /\ CompletionDays = {1, 2}

\* the positions of the records of a file that a successful import adds: a
\* record without id, or the first record with an id the collection lacks
AddedRecords(ts, recs) ==
    { j \in 1..Len(recs) :
         \/ ~("id" \in DOMAIN recs[j])
         \/ /\ recs[j].id \notin { ts[i].id : i \in 1..Len(ts) }
            /\ \A h \in 1..(j - 1) : "id" \in DOMAIN recs[h] => recs[h].id # recs[j].id }

\* C25: a successful import is an additive merge: the tasks of the
\* collection stay, in their order and with every field but order as it was,
\* a record whose id the collection already has is skipped, and the new
\* tasks follow the existing ones in the order of the file.
C25_ImportIsAdditiveMerge ==
    [][ (last'.op = "importTasks" /\ last'.ret.success) =>
          LET recs == last'.args[1].value
              added == AddedRecords(tasks, recs)
              nth(n) == CHOOSE j \in added : Cardinality({ h \in added : h < j }) = n - 1
          IN  /\ Len(tasks') = Len(tasks) + Cardinality(added)
              /\ Unordered(SubSeq(tasks', 1, Len(tasks))) = Unordered(tasks)
              /\ \A n \in 1..Cardinality(added) :
                    "id" \in DOMAIN recs[nth(n)] =>
                        tasks'[Len(tasks) + n].id = recs[nth(n)].id ]_vars

\* the import of an envelope with the ids "7" and "0" into a collection
\* that holds a task with the id "0": "0" is skipped and "7" is appended
C25_Witness ==
    /\ last.op = "importTasks"
    /\ last.ret.success
    /\ last.args[1].json = "envelope"
    /\ Ids(tasks) = <<"0", "7">>
    /\ tasks[1].order = 0
    /\ ~tasks[1].completed
    /\ tasks[2].completed

\* C26: an import that returns a failure result leaves the collection and
\* the stored data as they were.  Violated: a null element after valid
\* records throws inside the loop, after the records before it were pushed.
C26_FailedImportChangesNothing ==
    [][ (last'.op = "importTasks" /\ ~last'.ret.success) =>
          UNCHANGED <<tasks, stored>> ]_vars

\* C27: exporting the collection and importing the exported text into a
\* fresh empty collection gives the same number of tasks, with the same ids
\* in the same sequence and the same field values, and order 0 .. n-1.
\* Violated: of two tasks with the same id (C3) the import skips the second.
C27_ExportImportRoundTrip ==
    last.op = "exportImportFresh" =>
        /\ Len(last.ret.tasks) = Len(tasks)
        /\ Unordered(last.ret.tasks) = Unordered(tasks)
        /\ \A i \in 1..Len(last.ret.tasks) : last.ret.tasks[i].order = i - 1

C29_RestartRebuildsCollection ==
    [][ last'.op = "constructor" => (tasks' = tasks /\ deletedTask' = null) ]_vars

\* the (id, createdAt) pairs of the tasks in the collection ts and the slot
Identities(ts, slot) ==
    { <<ts[i].id, ts[i].createdAt>> : i \in 1..Len(ts) }
        \cup (IF slot = null THEN {} ELSE { <<slot.id, slot.createdAt>> })

\* C30: no update, toggle, reorder, delete or undo changes the id or the
\* createdAt of a task: the tasks held after the step (collection and slot)
\* carry only (id, createdAt) pairs that held tasks carried before it.
\* Violated: updateTask spreads an id or createdAt given in updates over the
\* task.
C30_IdAndCreatedAtNeverChange ==
    [][ last'.op \in {"updateTask", "toggleTaskCompletion", "reorderTasks",
                      "deleteTask", "undoDelete"} =>
          Identities(tasks', deletedTask') \subseteq Identities(tasks, deletedTask) ]_vars

\* the incomplete tasks with a due date whose day is before, or is, the day
\* of the instant t
DueBefore(ts, t) ==
    { i \in 1..Len(ts) : /\ ts[i].dueDate # Null
                         /\ ~ts[i].completed
                         /\ DueDay(ts[i].dueDate) < t \div DayMs }
DueOn(ts, t) ==
    { i \in 1..Len(ts) : /\ ts[i].dueDate # Null
                         /\ ~ts[i].completed
                         /\ DueDay(ts[i].dueDate) = t \div DayMs }

\* C31: the insights count as overdue exactly the incomplete tasks whose due
\* date is a calendar day before today, and as due today exactly the
\* incomplete tasks whose due date is today; a completed task is in neither
\* count.  Violated: a task due today is overdue from the first millisecond
\* after midnight.
C31_OverdueIsBeforeToday ==
    (last.op = "renderInsights" /\ Len(tasks) > 0) =>
        /\ last.ret.overdue = Cardinality(DueBefore(tasks, now))
        /\ last.ret.dueToday = Cardinality(DueOn(tasks, now))

\* how many times the task t, its order aside, occurs in ts
Occurrences(ts, t) == Cardinality({ i \in 1..Len(ts) : StripOrder(ts[i]) = StripOrder(t) })

\* C32: an undoDelete right after a deleteTask of a present id gives a
\* collection with the tasks (order aside) the collection had before the
\* delete, each as many times as before: those left by the delete and the
\* removed task once more; an undoDelete right after that one returns false
\* and changes neither the collection nor the slot.
C32_DeleteUndoRestoresOnce ==
    [][ /\ (last.op = "deleteTask" /\ last.ret.type = "task" /\ last'.op = "undoDelete") =>
              /\ Len(tasks') = Len(tasks) + 1
              /\ \A i \in 1..Len(tasks') :
                    Occurrences(tasks', tasks'[i]) =
                        Occurrences(tasks, tasks'[i])
                            + (IF StripOrder(tasks'[i]) = StripOrder(last.ret.task) THEN 1 ELSE 0)
              /\ deletedTask' = null
        /\ (last.op = "undoDelete" /\ last'.op = "undoDelete") =>
              /\ last'.ret = BoolRet(FALSE)
              /\ UNCHANGED <<tasks, deletedTask, stored>> ]_vars

\* a deletion undone at once, and a second undo that did nothing
C32_Witness ==
    /\ last.op = "undoDelete"
    /\ last.ret = BoolRet(FALSE)
    /\ undoTimeout = NoTimeout
    /\ nextHandle > 1
    /\ Len(tasks) = 2
    /\ deletedTask = null

\* C33: the task in the slot is not in the collection: no task of the
\* collection has its id.  Violated: an import between a delete and its
\* undo brings the deleted task's id back, and so does an add within the
\* millisecond of the deleted task's creation (C3).
C33_SlotTaskNotInCollection ==
    deletedTask # null => \A i \in 1..Len(tasks) : tasks[i].id # deletedTask.id

\* C34: a successful reorder keeps the tasks (order aside), each as many
\* times as before, and the tasks other than the dragged one in the same
\* order relative to each other.
C34_ReorderKeepsTasksAndOthersOrder ==
    [][ (last'.op = "reorderTasks" /\ last'.ret = BoolRet(TRUE)) =>
          LET i == FirstIndex(tasks, last'.args[1])
          IN  /\ Len(tasks') = Len(tasks)
              /\ \A k \in 1..Len(tasks) :
                    Occurrences(tasks', tasks[k]) = Occurrences(tasks, tasks[k])
              /\ \E k \in 1..Len(tasks') :
                    /\ StripOrder(tasks'[k]) = StripOrder(tasks[i])
                    /\ Unordered(Without(tasks', k)) = Unordered(Without(tasks, i)) ]_vars

\* the last of three tasks dragged onto the first
C34_Witness ==
    /\ last.op = "reorderTasks"
    /\ last.ret = BoolRet(TRUE)
    /\ last.args = <<"0", "2">>
    /\ Ids(tasks) = <<"0", "2", "1">>

\* C35: with the sort key manual (filter all, empty query) the view is the
\* collection, task for task in the collection's sequence.  Violated:
\* addTask puts the new task first with the largest order value (C16), and
\* the manual view sorts by order, so it shows the new task last.
C35_ManualViewIsCollectionOrder ==
    [][ (/\ last'.ret.type = "view"
         /\ sort' = "manual"
         /\ filter' = "all"
         /\ searchQuery' = "") => last'.ret.tasks = tasks' ]_vars

\* C36: calculateStreak called right after a toggleTaskCompletion that
\* completed a task returns at least 1.  Violated: with an imported task
\* whose completedAt is a later day than today, the most recent completion
\* day is neither today nor yesterday and the streak is 0.
C36_StreakAfterCompletionIsPositive ==
    [][ (/\ last.op = "toggleTaskCompletion"
         /\ last.ret.type = "task"
         /\ last.ret.task.completed
         /\ last'.op = "calculateStreak") => last'.ret.value >= 1 ]_vars

\* C37: a successful import of the payload that the step before imported
\* successfully leaves the collection as it is.  Violated: a record without
\* id is given the clock value as its id and is never found present, so the
\* second import adds it again.
C37_ImportTwiceIsImportOnce ==
    [][ (/\ last.op = "importTasks"
         /\ last.ret.success
         /\ last'.op = "importTasks"
         /\ last'.args = last.args) =>
          /\ last'.ret.success
          /\ tasks' = tasks ]_vars

\* C38: the Undo button of the toast shown for the deletion of a task
\* restores that task or nothing.  Violated: every toast's button calls
\* undoDelete(), which restores whatever the slot holds, so the button of an
\* earlier toast restores the task deleted later.
C38_ToastUndoRestoresItsTask ==
    [][ (last'.op = "undoDelete" /\ last'.ret.type = "task") =>
          \A toast \in toasts \ toasts' :
             StripOrder(last'.ret.task) = StripOrder(toast.task) ]_vars

====
